---- MODULE Spec2Model ----
(***************************************************************************)
(* Model of the YouTube processing Lambda (lambda/youtube-function/        *)
(* handler.py) and of the audio feature aggregator (backend/               *)
(* audio_analyzer.py).                                                     *)
(*                                                                         *)
(* Text is modelled as a sequence of one-character strings, so that        *)
(* urlparse, parse_qs, str.lower and str.endswith are computed character   *)
(* by character.  Python's None is the one-element sequence <<"None">>,    *)
(* which is no text (its element is not a character).                      *)
(***************************************************************************)
EXTENDS Integers, Sequences, FiniteSets, TLC

VARIABLES
    event,        \* the Lambda event: path and queryStringParameters
    world,        \* what the external collaborators do when called
    pc,           \* "start", "running" (blocked in subprocess.run), "done"
    handler,      \* which handler the router entered: "none", "info", "audio"
    pending,      \* the external process being waited for
    started,      \* the external processes started so far, in order
    context,      \* the Lambda context: None or a request id
    audio_file,   \* handler local: None or the temporary path
    tmp_files,    \* the paths that exist under /tmp
    response,     \* the value lambda_handler returned
    propagated,   \* TRUE when an exception left lambda_handler
    call,         \* audio_analyzer.py: the function called and its arguments
    returned      \* audio_analyzer.py: what the call produced

handlerVars ==
    <<event, context, world, pc, handler, pending, started, audio_file,
      tmp_files, response, propagated>>

analyzerVars == <<call, returned>>

vars == <<handlerVars, analyzerVars>>

NoCall == [fn |-> "none"]

NoResult == [tag |-> "none"]

-----------------------------------------------------------------------------
(* Text helpers *)

None == <<"None">>

NoResponse == [statusCode |-> 0]

UpperChars == <<"A","B","C","D","E","F","G","H","I","J","K","L","M",
                "N","O","P","Q","R","S","T","U","V","W","X","Y","Z">>

LowerChars == <<"a","b","c","d","e","f","g","h","i","j","k","l","m",
                "n","o","p","q","r","s","t","u","v","w","x","y","z">>

Digits == {"0","1","2","3","4","5","6","7","8","9"}

Letters == {UpperChars[i] : i \in 1..26} \cup {LowerChars[i] : i \in 1..26}

LowerChar(c) ==
    IF \E i \in 1..26 : UpperChars[i] = c
    THEN LowerChars[CHOOSE i \in 1..26 : UpperChars[i] = c]
    ELSE c

\* str.lower()
Lower(s) == [i \in 1..Len(s) |-> LowerChar(s[i])]

\* the least index at or after `from` whose character is in cs, or 0
FindAny(s, cs, from) ==
    IF \E i \in from..Len(s) : s[i] \in cs
    THEN CHOOSE i \in from..Len(s) :
            s[i] \in cs /\ \A j \in from..(i - 1) : s[j] \notin cs
    ELSE 0

\* the greatest index whose character is c, or 0
RFind(s, c) ==
    IF \E i \in 1..Len(s) : s[i] = c
    THEN CHOOSE i \in 1..Len(s) : s[i] = c /\ \A j \in (i + 1)..Len(s) : s[j] # c
    ELSE 0

\* s[from:]
Tail0(s, from) == SubSeq(s, from, Len(s))

\* str.endswith
EndsWith(s, suffix) ==
    /\ Len(suffix) <= Len(s)
    /\ SubSeq(s, Len(s) - Len(suffix) + 1, Len(s)) = suffix

\* bool(x) of a value that is None or text
Truthy(x) == x # None /\ Len(x) > 0

-----------------------------------------------------------------------------
(* urllib.parse, as handler.py uses it *)

SchemeChars == Letters \cup Digits \cup {"+", "-", "."}

\* urlparse(url): scheme, netloc, path and query of a URL without fragment
\* or parameters (the modelled alphabet has neither "#" nor ";")
urlparse(url) ==
    LET colon     == FindAny(url, {":"}, 1)
        hasScheme == /\ colon > 1
                     /\ url[1] \in Letters
                     /\ \A i \in 1..(colon - 1) : url[i] \in SchemeChars
        scheme    == IF hasScheme THEN Lower(SubSeq(url, 1, colon - 1)) ELSE <<>>
        rest      == IF hasScheme THEN Tail0(url, colon + 1) ELSE url
        hasNetloc == Len(rest) >= 2 /\ rest[1] = "/" /\ rest[2] = "/"
        delim     == IF hasNetloc THEN FindAny(rest, {"/", "?"}, 3) ELSE 0
        netloc    == IF ~hasNetloc THEN <<>>
                     ELSE IF delim = 0 THEN Tail0(rest, 3)
                     ELSE SubSeq(rest, 3, delim - 1)
        rest2     == IF ~hasNetloc THEN rest
                     ELSE IF delim = 0 THEN <<>>
                     ELSE Tail0(rest, delim)
        qmark     == FindAny(rest2, {"?"}, 1)
    IN  [scheme |-> scheme,
         netloc |-> netloc,
         path   |-> IF qmark = 0 THEN rest2 ELSE SubSeq(rest2, 1, qmark - 1),
         query  |-> IF qmark = 0 THEN <<>> ELSE Tail0(rest2, qmark + 1)]

\* ParseResult.hostname: the netloc without userinfo and port, lower-cased;
\* None when it is empty
Hostname(parsed) ==
    LET at       == RFind(parsed.netloc, "@")
        hostport == Tail0(parsed.netloc, at + 1)
        colon    == FindAny(hostport, {":"}, 1)
        host     == IF colon = 0 THEN hostport ELSE SubSeq(hostport, 1, colon - 1)
    IN  IF Len(host) = 0 THEN None ELSE Lower(host)

\* the "&"-separated fields of a query string
RECURSIVE SplitAmp(_)
SplitAmp(q) ==
    LET amp == FindAny(q, {"&"}, 1)
    IN  IF amp = 0 THEN <<q>>
        ELSE <<SubSeq(q, 1, amp - 1)>> \o SplitAmp(Tail0(q, amp + 1))

\* the keys of parse_qs(query): keep_blank_values is False, so a field
\* without "=" or with an empty value is dropped
parse_qs_keys(query) ==
    LET fields == SplitAmp(query)
    IN  { SubSeq(fields[i], 1, FindAny(fields[i], {"="}, 1) - 1) :
            i \in { k \in 1..Len(fields) :
                      LET eq == FindAny(fields[k], {"="}, 1)
                      IN  eq > 0 /\ eq < Len(fields[k]) } }

YoutubeHosts ==
    { <<"w","w","w",".","y","o","u","t","u","b","e",".","c","o","m">>,
      <<"y","o","u","t","u","b","e",".","c","o","m">>,
      <<"m",".","y","o","u","t","u","b","e",".","c","o","m">> }

ShortHost == <<"y","o","u","t","u",".","b","e">>

WatchPath == <<"/","w","a","t","c","h">>

is_valid_youtube_url_AnyPath(url) ==
    LET parsed   == urlparse(url)
        hostname == IF Hostname(parsed) = None THEN <<>> ELSE Hostname(parsed)
    IN  IF hostname \in YoutubeHosts
        THEN parsed.path = WatchPath /\ <<"v">> \in parse_qs_keys(parsed.query)
        ELSE IF hostname = ShortHost
        THEN Len(parsed.path) > 0
        ELSE FALSE

is_valid_youtube_url(url) ==
    LET parsed   == urlparse(url)
        hostname == IF Hostname(parsed) = None THEN <<>> ELSE Hostname(parsed)
    IN  IF hostname \in YoutubeHosts
        THEN parsed.path = WatchPath /\ <<"v">> \in parse_qs_keys(parsed.query)
        ELSE IF hostname = ShortHost
        THEN Len(parsed.path) > 1
        ELSE FALSE

-----------------------------------------------------------------------------
(* The requests and the collaborators' behaviours that are enumerated *)

HTTPS == <<"h","t","t","p","s",":","/","/">>

WwwHost == <<"w","w","w",".","y","o","u","t","u","b","e",".","c","o","m">>

BareHost == <<"y","o","u","t","u","b","e",".","c","o","m">>

MobileHost == <<"m",".","y","o","u","t","u","b","e",".","c","o","m">>

ExampleHost == <<"e","x","a","m","p","l","e",".","c","o","m">>

\* https://www.youtube.com/watch?v=abc123
UrlWatch == HTTPS \o WwwHost \o WatchPath \o <<"?","v","=","a","b","c","1","2","3">>

\* https://youtu.be/abc123
UrlShort == HTTPS \o ShortHost \o <<"/","a","b","c","1","2","3">>

\* https://youtu.be/
UrlShortEmptyPath == HTTPS \o ShortHost \o <<"/">>

\* https://youtu.be
UrlShortNoPath == HTTPS \o ShortHost

\* https://example.com/watch?v=abc
UrlExample == HTTPS \o ExampleHost \o WatchPath \o <<"?","v","=","a","b","c">>

\* https://youtube.com/watch?v=
UrlBlankV == HTTPS \o BareHost \o WatchPath \o <<"?","v","=">>

\* https://youtube.com/watch?v
UrlNoEquals == HTTPS \o BareHost \o WatchPath \o <<"?","v">>

\* https://www.youtube.com/watch?list=x
UrlNoV == HTTPS \o WwwHost \o WatchPath \o <<"?","l","i","s","t","=","x">>

\* https://m.youtube.com/watch?t=1&v=a
UrlMobile == HTTPS \o MobileHost \o WatchPath \o <<"?","t","=","1","&","v","=","a">>

\* https://WWW.YouTube.COM/watch?v=a
UrlUpper ==
    HTTPS \o <<"W","W","W",".","Y","o","u","T","u","b","e",".","C","O","M">>
          \o WatchPath \o <<"?","v","=","a">>

\* https://m.youtube.com:443/watch?v=a
UrlPort == HTTPS \o MobileHost \o <<":","4","4","3">> \o WatchPath \o <<"?","v","=","a">>

\* https://www.youtube.com/watch/?v=a
UrlWatchSlash == HTTPS \o WwwHost \o WatchPath \o <<"/","?","v","=","a">>

\* https://www.youtube.com/embed?v=a
UrlEmbed == HTTPS \o WwwHost \o <<"/","e","m","b","e","d","?","v","=","a">>

\* youtu.be/abc (no scheme, so no network location)
UrlNoScheme == ShortHost \o <<"/","a","b","c">>

Urls ==
    { UrlWatch, UrlShort, UrlShortEmptyPath, UrlShortNoPath, UrlExample,
      UrlBlankV, UrlNoEquals, UrlNoV, UrlMobile, UrlUpper, UrlPort,
      UrlWatchSlash, UrlEmbed, UrlNoScheme }

InfoSuffix == <<"/","i","n","f","o">>

AudioSuffix ==
    <<"/","a","u","d","i","o","-","w","i","t","h","-",
      "a","n","a","l","y","s","i","s">>

ApiPrefix == <<"/","a","p","i","/","y","o","u","t","u","b","e">>

\* event['path']: the two endpoints, another path, '' (key absent:
\* event.get('path', '')) and None
Paths ==
    { ApiPrefix \o InfoSuffix, ApiPrefix \o AudioSuffix,
      ApiPrefix \o <<"/","a","u","d","i","o">>, <<>>, None }

\* event['queryStringParameters']: null, or a dict whose 'url' is absent
\* (None), '' or a URL
QueryStrings ==
    { [isNull |-> TRUE, url |-> None] }
    \cup { [isNull |-> FALSE, url |-> u] : u \in Urls \cup {None, <<>>} }

Events == [path : Paths, queryStringParameters : QueryStrings]

Contexts == { None, <<"r","1">> }

JNum(n) == <<"num", n>>

JNull == <<"null", 0>>

\* the durations a metadata payload reports; JNull is "duration": null
Durations == { JNum(0), JNum(300), JNum(301), JNull }

FullMetadata ==
    [title |-> "Some title", uploader |-> "Some uploader",
     thumbnail |-> "https://i.ytimg.com/t.jpg", webpage_url |-> UrlWatch,
     id |-> "abc123"]

ChannelMetadata == [title |-> "Some title", channel |-> "Some channel", id |-> "abc123"]

EmptyObject == [k \in {} |-> 0]

WithDuration(obj, d) ==
    [k \in DOMAIN obj \cup {"duration"} |-> IF k = "duration" THEN d ELSE obj[k]]

\* the JSON documents the resolver prints
MetadataObjects ==
    { WithDuration(FullMetadata, d) : d \in Durations }
    \cup { WithDuration(EmptyObject, d) : d \in Durations }
    \cup { FullMetadata, EmptyObject, ChannelMetadata }

\* what a completed subprocess.run yields: the process ran and exited
\* ("exit"), outlived its timeout ("timeout") or could not be spawned
\* ("oserror").  stderr is modelled by its length, stdout by its JSON form.
NoStdout == [form |-> "malformed", value |-> EmptyObject]

Exit(rc, stdout, stderr) ==
    [kind |-> "exit", returncode |-> rc, stdout |-> stdout, stderr |-> stderr]

MetadataOutcomes ==
    { [kind |-> k, returncode |-> 0, stdout |-> NoStdout, stderr |-> 0] :
        k \in {"timeout", "oserror"} }
    \cup { Exit(1, NoStdout, n) : n \in {0, 40} }
    \cup { Exit(0, NoStdout, 0), Exit(0, [form |-> "array", value |-> EmptyObject], 0) }
    \cup { Exit(0, [form |-> "object", value |-> o], 0) : o \in MetadataObjects }

\* the download process; `file` says whether it left a file at the output path
DownloadOutcomes ==
    { [kind |-> "exit", returncode |-> 0, stderr |-> 0, file |-> TRUE],
      [kind |-> "exit", returncode |-> 1, stderr |-> 501, file |-> FALSE],
      [kind |-> "exit", returncode |-> 1, stderr |-> 40, file |-> TRUE],
      [kind |-> "timeout", returncode |-> 0, stderr |-> 0, file |-> TRUE] }

SomeFeatures == [tempo |-> 120, mood |-> "moderate"]

\* analyze_audio's result: {'success': True, 'features': ...} or
\* {'success': False, 'error': str(e)} (the error by its length)
AnalysisOutcomes ==
    { [success |-> TRUE, features |-> SomeFeatures, error |-> 0],
      [success |-> FALSE, features |-> SomeFeatures, error |-> 25] }

Worlds ==
    [meta : MetadataOutcomes, download : DownloadOutcomes,
     analysis : AnalysisOutcomes, unlinkFails : BOOLEAN]

-----------------------------------------------------------------------------
(* Response envelopes.  `body` is the JSON document json.dumps serialises;  *)
(* a message is the sequence of the parts of its format string.             *)

Headers ==
    ("Content-Type" :> "application/json") @@ ("Access-Control-Allow-Origin" :> "*")

success_response(data) ==
    [statusCode |-> 200, headers |-> Headers, body |-> data]

\* error details: None, a string (by its length) or a dict
NoDetails == <<"none", 0>>

StrDetails(n) == <<"str", n>>

DictDetails(d) == <<"dict", d>>

\* bool(details)
DetailsTruthy(details) ==
    CASE details[1] = "none" -> FALSE
      [] details[1] = "str"  -> details[2] > 0
      [] details[1] = "dict" -> DOMAIN details[2] # {}

error_response(status_code, message, details) ==
    [statusCode |-> status_code,
     headers    |-> Headers,
     body       |-> IF DetailsTruthy(details)
                    THEN [error |-> message, details |-> details[2]]
                    ELSE [error |-> message]]

-----------------------------------------------------------------------------
(* What a stretch of handler code does until it next blocks or leaves:      *)
(* return a response, raise an exception, or call an external process.      *)

Return(r) == [tag |-> "return", response |-> r, exc |-> "", file |-> None]

Raise(e) == [tag |-> "raise", response |-> NoResponse, exc |-> e, file |-> None]

Call(f) == [tag |-> "call", response |-> NoResponse, exc |-> "", file |-> f]

\* dict.get(key, default)
Get(obj, key, default) == IF key \in DOMAIN obj THEN obj[key] ELSE default

MaxDuration == 300

StderrLimit == 500

\* query_params = event.get('queryStringParameters') or {}; .get('url')
QueryUrl(ev) ==
    IF ev.queryStringParameters.isNull THEN None ELSE ev.queryStringParameters.url

\* lines 49-55 and 113-119: the url checks both handlers open with
ValidateUrl(url) ==
    IF ~Truthy(url)
    THEN Return(error_response(400, <<"URL parameter is required">>, NoDetails))
    ELSE IF ~is_valid_youtube_url(url)
    THEN Return(error_response(400, <<"Invalid YouTube URL">>, NoDetails))
    ELSE Call(None)

DurationDetails(d) == DictDetails([duration |-> d, maxDuration |-> MaxDuration])

InfoDurationExceedsOrEquals(duration) == duration >= MaxDuration

InfoDurationExceeds(duration) == duration > MaxDuration

\* video_info.get('uploader') or video_info.get('channel', 'Unknown')
Author(video_info) ==
    IF "uploader" \in DOMAIN video_info /\ video_info["uploader"] # ""
    THEN video_info["uploader"]
    ELSE Get(video_info, "channel", "Unknown")

\* handle_youtube_info, the try block from the return of subprocess.run on
InfoTry(url, result) ==
    IF result.kind = "timeout" THEN Raise("TimeoutExpired")
    ELSE IF result.kind = "oserror" THEN Raise("FileNotFoundError")
    ELSE IF result.returncode # 0
    THEN Return(error_response(500, <<"Failed to fetch video information">>,
                               StrDetails(result.stderr)))
    ELSE IF result.stdout.form = "malformed" THEN Raise("JSONDecodeError")
    ELSE IF result.stdout.form # "object" THEN Raise("AttributeError")
    ELSE
      LET video_info == result.stdout.value
          duration   == Get(video_info, "duration", JNum(0))
      IN  IF duration[1] # "num" THEN Raise("TypeError")
          ELSE IF InfoDurationExceeds(duration[2])
          THEN Return(error_response(400, <<"Video duration exceeds 5 minute limit">>,
                                     DurationDetails(duration[2])))
          ELSE Return(success_response(
                 [title     |-> Get(video_info, "title", "Unknown"),
                  duration  |-> duration[2],
                  thumbnail |-> Get(video_info, "thumbnail", ""),
                  author    |-> Author(video_info),
                  url       |-> Get(video_info, "webpage_url", url)]))

\* handle_youtube_info, the except clauses
InfoExcept(exc) ==
    CASE exc = "TimeoutExpired"  -> error_response(504, <<"Request timeout">>, NoDetails)
      [] exc = "JSONDecodeError" ->
            error_response(500, <<"Failed to parse video information">>, NoDetails)
      [] OTHER ->
            error_response(500, <<"Failed to fetch video information: ", exc>>, NoDetails)

\* handle_youtube_info from the return of subprocess.run to its own return
handle_youtube_info(url, result) ==
    LET out == InfoTry(url, result)
    IN  IF out.tag = "raise" THEN InfoExcept(out.exc) ELSE out.response

-----------------------------------------------------------------------------
(* handle_youtube_audio_with_analysis *)

\* the names module handler.py binds (its imports and its functions)
ModuleGlobals ==
    { "json", "subprocess", "os", "tempfile", "traceback", "urlparse",
      "parse_qs", "analyze_audio", "lambda_handler", "handle_youtube_info",
      "handle_youtube_audio_with_analysis", "is_valid_youtube_url",
      "success_response", "error_response" }

\* the names handle_youtube_audio_with_analysis binds: its one parameter
\* and the targets of its assignments
AudioHandlerLocals ==
    { "query_params", "audio_file", "url", "info_result", "video_info",
      "duration", "request_id", "download_result", "analysis_result",
      "error_msg", "features", "response_data", "e" }

\* whether a name read in handle_youtube_audio_with_analysis is bound
\* (no builtin is called context); reading an unbound name raises NameError
NameResolves(name) == name \in AudioHandlerLocals \cup ModuleGlobals

ProcessId == <<"4","2">>

\* f'/tmp/audio_{request_id}.mp3'
AudioPath(request_id) ==
    <<"/","t","m","p","/","a","u","d","i","o","_">> \o request_id
        \o <<".","m","p","3">>

AudioDurationGateMissing(duration) == FALSE

AudioDurationExceeds(duration) == duration > MaxDuration

\* the try block from the return of the metadata process to the call of
\* the download process (lines 131-151)
AudioTryMetadata(ctx, info_result) ==
    IF info_result.kind = "timeout" THEN Raise("TimeoutExpired")
    ELSE IF info_result.kind = "oserror" THEN Raise("FileNotFoundError")
    ELSE IF info_result.returncode # 0
    THEN Return(error_response(500, <<"Failed to get video information">>, NoDetails))
    ELSE IF info_result.stdout.form = "malformed" THEN Raise("JSONDecodeError")
    ELSE IF info_result.stdout.form # "object" THEN Raise("AttributeError")
    ELSE
      LET video_info == info_result.stdout.value
          duration   == Get(video_info, "duration", JNum(0))
      IN  IF duration[1] # "num" THEN Raise("TypeError")
          ELSE IF AudioDurationExceeds(duration[2])
          THEN Return(error_response(400, <<"Video duration exceeds 5 minute limit">>,
                                     DurationDetails(duration[2])))
          \* request_id = context.request_id if context else str(os.getpid())
          ELSE IF ~NameResolves("context") THEN Raise("NameError")
          ELSE Call(AudioPath(IF ctx # None THEN ctx ELSE ProcessId))

\* download_result.stderr[:500]
Truncate(n) == IF n > StderrLimit THEN StderrLimit ELSE n

\* 'thumbnail': video_info.get('thumbnail') or f'https://i3.ytimg.com/vi/...'
Thumbnail(video_info) ==
    IF "thumbnail" \in DOMAIN video_info /\ video_info["thumbnail"] # ""
    THEN video_info["thumbnail"]
    ELSE "https://i3.ytimg.com/vi/{id}/maxresdefault.jpg"

\* the try block from the return of the download process on (lines 166-198)
AudioTryDownload(info_result, download_result, analysis_result) ==
    IF download_result.kind = "timeout" THEN Raise("TimeoutExpired")
    ELSE IF download_result.returncode # 0
    THEN Return(error_response(500, <<"Failed to download audio">>,
                   DictDetails([stderr |-> Truncate(download_result.stderr)])))
    ELSE IF ~analysis_result.success
    THEN Return(error_response(500, <<"Audio analysis failed">>,
                               StrDetails(analysis_result.error)))
    ELSE
      LET video_info == info_result.stdout.value
      IN  Return(success_response(
            [success   |-> TRUE,
             videoInfo |-> [title     |-> Get(video_info, "title", "null"),
                            duration  |-> Get(video_info, "duration", JNull),
                            author    |-> Get(video_info, "uploader", "null"),
                            thumbnail |-> Thumbnail(video_info)],
             analysis  |-> analysis_result.features]))

AudioExceptNoTimeoutClause(exc) ==
    error_response(500, <<"Failed to process: ", exc>>, <<"none", 0>>)

\* the except clauses
AudioExcept(exc) ==
    CASE exc = "TimeoutExpired" -> error_response(504, <<"Request timeout">>, NoDetails)
      [] OTHER -> error_response(500, <<"Failed to process: ", exc>>, NoDetails)

\* the finally block: the files under /tmp it leaves
AudioFinally(file, files, unlinkFails) ==
    IF file # None /\ file \in files /\ ~unlinkFails
    THEN files \ {file}
    ELSE files

\* the response of a stretch of the try block that returned or raised
AudioResponse(out) ==
    IF out.tag = "raise" THEN AudioExcept(out.exc) ELSE out.response

-----------------------------------------------------------------------------
(* lambda_handler: one invocation *)

Init ==
    /\ event \in Events
    /\ context \in Contexts
    /\ world \in Worlds
    /\ pc = "start"
    /\ handler = "none"
    /\ pending = "none"
    /\ started = <<>>
    /\ audio_file = None
    /\ tmp_files = {}
    /\ response = NoResponse
    /\ propagated = FALSE
    /\ call = NoCall
    /\ returned = NoResult

LambdaNoCatch(out) ==
    [response |-> out.response, propagated |-> out.tag = "raise"]

\* the try/except of lambda_handler around the routed call (lines 21-40)
LambdaCatch(out) ==
    [response   |-> IF out.tag = "raise"
                    THEN error_response(500, <<"Internal server error: ", out.exc>>,
                                        NoDetails)
                    ELSE out.response,
     propagated |-> FALSE]

\* lambda_handler returns (or lets an exception through)
Finish(out) ==
    /\ response' = LambdaCatch(out).response
    /\ propagated' = LambdaCatch(out).propagated
    /\ pc' = "done"
    /\ pending' = "none"

RoutesToInfo(path) == EndsWith(path, InfoSuffix)

RoutesToAudio(path) == ~RoutesToInfo(path) /\ EndsWith(path, AudioSuffix)

\* subprocess.run(['yt-dlp', ...]): the process is started and the handler
\* blocks until it exits or its timeout expires
StartProcess(which, h) ==
    /\ started' = Append(started, which)
    /\ pending' = which
    /\ handler' = h
    /\ pc' = "running"
    /\ UNCHANGED <<response, propagated>>

\* lambda_handler is entered with an event it routes to handle_youtube_info
InfoRouted == pc = "start" /\ event.path # None /\ RoutesToInfo(event.path)

\* ... to handle_youtube_audio_with_analysis
AudioRouted == pc = "start" /\ event.path # None /\ RoutesToAudio(event.path)

\* ... to neither
OtherRouted ==
    /\ pc = "start"
    /\ event.path # None => ~RoutesToInfo(event.path) /\ ~RoutesToAudio(event.path)

\* a handler is blocked in subprocess.run
Blocked(h) == pc = "running" /\ handler = h

\* a request for .../info, up to the metadata process or the 400
LambdaHandlerInfo ==
    /\ InfoRouted
    /\ LET out == ValidateUrl(QueryUrl(event))
       IN  IF out.tag = "call"
           THEN StartProcess("metadata", "info")
           ELSE Finish(out) /\ handler' = "info" /\ UNCHANGED started
    /\ UNCHANGED <<event, context, world, audio_file, tmp_files, analyzerVars>>

\* a request for .../audio-with-analysis, up to the metadata process or the
\* 400; audio_file is still None, so the finally block removes nothing
LambdaHandlerAudio ==
    /\ AudioRouted
    /\ LET out == ValidateUrl(QueryUrl(event))
       IN  IF out.tag = "call"
           THEN StartProcess("metadata", "audio") /\ UNCHANGED tmp_files
           ELSE /\ Finish(out)
                /\ handler' = "audio"
                /\ tmp_files' = AudioFinally(audio_file, tmp_files, world.unlinkFails)
                /\ UNCHANGED started
    /\ UNCHANGED <<event, context, world, audio_file, analyzerVars>>

\* any other event: path.endswith on None raises inside the try block,
\* every other path is answered 404
LambdaHandlerOther ==
    /\ OtherRouted
    /\ Finish(IF event.path = None
              THEN Raise("AttributeError")
              ELSE Return(error_response(404, <<"Endpoint not found">>, NoDetails)))
    /\ UNCHANGED <<event, context, world, handler, started, audio_file, tmp_files,
                   analyzerVars>>

\* the metadata process of an info request ends; the handler runs to its return
InfoResume ==
    /\ Blocked("info")
    /\ Finish(Return(handle_youtube_info(QueryUrl(event), world.meta)))
    /\ UNCHANGED <<event, context, world, handler, started, audio_file, tmp_files,
                   analyzerVars>>

\* the process an audio request waits for ends; the handler runs to its
\* next subprocess.run or, through the finally block, to its return
AudioResume ==
    /\ Blocked("audio")
    /\ IF pending = "metadata"
       THEN LET out == AudioTryMetadata(context, world.meta)
            IN  IF out.tag = "call"
                THEN /\ audio_file' = out.file
                     /\ StartProcess("download", "audio")
                     /\ UNCHANGED tmp_files
                ELSE /\ Finish(Return(AudioResponse(out)))
                     /\ tmp_files' =
                            AudioFinally(audio_file, tmp_files, world.unlinkFails)
                     /\ UNCHANGED <<handler, started, audio_file>>
       ELSE LET files == IF world.download.file
                         THEN tmp_files \cup {audio_file}
                         ELSE tmp_files
                out   == AudioTryDownload(world.meta, world.download, world.analysis)
            IN  /\ Finish(Return(AudioResponse(out)))
                /\ tmp_files' = AudioFinally(audio_file, files, world.unlinkFails)
                /\ UNCHANGED <<handler, started, audio_file>>
    /\ UNCHANGED <<event, context, world, analyzerVars>>

Next ==
    \/ LambdaHandlerInfo
    \/ LambdaHandlerAudio
    \/ LambdaHandlerOther
    \/ InfoResume
    \/ AudioResume

Spec == Init /\ [][Next]_vars

-----------------------------------------------------------------------------
(* audio_analyzer.py.  A float is modelled by the exact rational it stands  *)
(* for, [num, den] in lowest terms with den > 0.                            *)

RECURSIVE GCD(_, _)
GCD(a, b) == IF b = 0 THEN a ELSE GCD(b, a % b)

Abs(n) == IF n < 0 THEN -n ELSE n

Rat(n, d) ==
    LET g == GCD(Abs(n), d)
    IN  [num |-> n \div g, den |-> d \div g]

Zero == Rat(0, 1)

One == Rat(1, 1)

RAdd(a, b) == Rat(a.num * b.den + b.num * a.den, a.den * b.den)

RMul(a, b) == Rat(a.num * b.num, a.den * b.den)

RLess(a, b) == a.num * b.den < b.num * a.den

\* min(a, b) of Python: a unless b is smaller
RMin(a, b) == IF RLess(b, a) THEN b ELSE a

RMax(a, b) == IF RLess(a, b) THEN b ELSE a

\* np.clip(x, lo, hi)
RClip(x, lo, hi) == RMin(RMax(x, lo), hi)

RECURSIVE SumSeq(_)
SumSeq(xs) == IF xs = <<>> THEN 0 ELSE xs[1] + SumSeq(Tail(xs))

RECURSIVE RSum(_)
RSum(xs) == IF xs = <<>> THEN Zero ELSE RAdd(xs[1], RSum(Tail(xs)))

\* np.mean of a one-dimensional array of floats (a scalar is the array of
\* its one value: np.mean(x) = x)
RMean(xs) == RMul(RSum(xs), Rat(1, Len(xs)))

\* np.var of a one-dimensional array: the mean squared deviation
Variance(xs) ==
    LET n  == Len(xs)
        sq == [i \in 1..n |-> xs[i] * xs[i]]
    IN  Rat(n * SumSeq(sq) - SumSeq(xs) * SumSeq(xs), n * n)

RECURSIVE Flatten(_)
Flatten(m) == IF m = <<>> THEN <<>> ELSE m[1] \o Flatten(Tail(m))

\* np.var(m): of all the entries of the matrix
VarianceAll(m) == Variance(Flatten(m))

\* np.var(m, axis=1): of each row
VarianceRows(m) == [r \in 1..Len(m) |-> Variance(m[r])]

\* np.argmax: the first index (from 0) of the greatest entry
ArgMax(v) ==
    (CHOOSE i \in 1..Len(v) :
        /\ \A j \in 1..Len(v) : v[j] <= v[i]
        /\ \A j \in 1..(i - 1) : v[j] < v[i]) - 1

MajorKeys == {0, 2, 4, 5, 7, 9, 11}

KeyNames == <<"C", "C#", "D", "D#", "E", "F", "F#", "G", "G#", "A", "A#", "B">>

calculate_valence(chroma_vals, tempo, energy) ==
    LET key_index     == ArgMax(chroma_vals)
        is_major      == key_index \in MajorKeys
        tempo_factor  == RMin(RMul(tempo, Rat(1, 180)), One)
        energy_factor == RMin(RMul(energy, Rat(10, 1)), One)
        valence       == RAdd(RAdd(IF is_major THEN Rat(4, 10) ELSE Rat(2, 10),
                                   RMul(tempo_factor, Rat(3, 10))),
                              RMul(energy_factor, Rat(3, 10)))
    IN  RClip(valence, Zero, One)

calculate_intensity_unclipped(energy, tempo) ==
    LET energy_factor == RMin(RMul(energy, Rat(10, 1)), One)
        tempo_factor  == RMin(RMul(tempo, Rat(1, 180)), One)
    IN  RAdd(RMul(energy_factor, Rat(6, 10)), RMul(tempo_factor, Rat(4, 10)))

calculate_intensity(energy, tempo) ==
    LET energy_factor == RMin(RMul(energy, Rat(10, 1)), One)
        tempo_factor  == RMin(RMul(tempo, Rat(1, 180)), One)
        intensity     == RAdd(RMul(energy_factor, Rat(6, 10)),
                              RMul(tempo_factor, Rat(4, 10)))
    IN  RClip(intensity, Zero, One)

\* mfcc_variance is what np.mean is applied to: an array of variances
calculate_complexity(spectral_variance, mfcc_variance) ==
    LET spectral_factor == RMin(RMul(spectral_variance, Rat(1, 1000000)), One)
        mfcc_factor     == RMin(RMul(RMean(mfcc_variance), Rat(1, 100)), One)
        complexity      == RAdd(RMul(spectral_factor, Rat(1, 2)),
                                RMul(mfcc_factor, Rat(1, 2)))
    IN  RClip(complexity, Zero, One)

determine_mood_upbeat_first(tempo, energy, chroma_vals) ==
    LET is_major == ArgMax(chroma_vals) \in MajorKeys
    IN  IF RLess(Rat(100, 1), tempo) /\ RLess(Rat(1, 10), energy)
        THEN (IF is_major THEN "upbeat" ELSE "dramatic")
        ELSE IF RLess(Rat(140, 1), tempo) /\ RLess(Rat(15, 100), energy)
        THEN (IF is_major THEN "energetic" ELSE "intense")
        ELSE IF RLess(tempo, Rat(80, 1))
        THEN (IF is_major THEN "calm" ELSE "melancholic")
        ELSE (IF is_major THEN "moderate" ELSE "contemplative")

determine_mood(tempo, energy, chroma_vals) ==
    LET key_index == ArgMax(chroma_vals)
        is_major  == key_index \in MajorKeys
    IN  IF RLess(Rat(140, 1), tempo) /\ RLess(Rat(15, 100), energy)
        THEN (IF is_major THEN "energetic" ELSE "intense")
        ELSE IF RLess(Rat(100, 1), tempo) /\ RLess(Rat(1, 10), energy)
        THEN (IF is_major THEN "upbeat" ELSE "dramatic")
        ELSE IF RLess(tempo, Rat(80, 1))
        THEN (IF is_major THEN "calm" ELSE "melancholic")
        ELSE (IF is_major THEN "moderate" ELSE "contemplative")

\* analyze_audio from the outputs of librosa on: p.rms_mean is np.mean(rms),
\* p.centroid_variance is np.var(spectral_centroids), p.chroma_vals is
\* np.sum(chroma, axis=1); librosa raising (p.loadFails) is caught
analyze_audio(p) ==
    IF p.loadFails
    THEN [success |-> FALSE, error |-> "str(e)"]
    ELSE [success  |-> TRUE,
          features |->
            [tempo         |-> p.tempo,
             key           |-> KeyNames[ArgMax(p.chroma_vals) + 1],
             energy        |-> p.rms_mean,
             spectral_centroid_variance |-> p.centroid_variance,
             mfcc_variance |-> VarianceRows(p.mfccs),
             valence       |-> calculate_valence(p.chroma_vals, p.tempo, p.rms_mean),
             intensity     |-> calculate_intensity(p.rms_mean, p.tempo),
             complexity    |-> calculate_complexity(p.centroid_variance,
                                                    <<VarianceAll(p.mfccs)>>),
             mood          |-> determine_mood(p.tempo, p.rms_mean, p.chroma_vals)]]

-----------------------------------------------------------------------------
(* Calls of audio_analyzer.py: one call per behaviour.  A tempo is a whole  *)
(* number of beats per minute, an energy a whole number of thousandths.    *)

MaxTempoUnits == 9

MaxEnergyUnits == 4

NumFrames == 2

N_MFCC == 13

N_CHROMA == 12

Tempos ==
    { 20 * k : k \in (-MaxTempoUnits)..MaxTempoUnits }
    \cup { 79, 81, 99, 101, 139, 141, 150 }

Energies ==
    { 50 * k : k \in (-MaxEnergyUnits)..MaxEnergyUnits }
    \cup { 99, 101, 149, 151 }

OneHot(k) == [i \in 1..N_CHROMA |-> IF i = k + 1 THEN 5 ELSE 1]

ChromaVectors ==
    { OneHot(k) : k \in 0..(N_CHROMA - 1) }
    \cup { [i \in 1..N_CHROMA |-> 0],
           [i \in 1..N_CHROMA |-> IF i \in {2, 3} THEN 3 ELSE 0] }

SpectralVariances == { -500000, 0, 250000, 1000000, 3000000 }

MfccVarianceArrays ==
    { <<0>>, <<-50>>, <<400>>, <<25, 75>>, [i \in 1..N_MFCC |-> 10 * i] }

Coefficients == { 0, 10, 20 }

MfccRows == [1..NumFrames -> Coefficients]

\* an N_MFCC x NumFrames matrix: its first k rows are a, the others b
Matrix(k, a, b) == [r \in 1..N_MFCC |-> IF r <= k THEN a ELSE b]

MfccMatrices == { Matrix(k, a, b) : k \in {0, 1, 6}, a \in MfccRows, b \in MfccRows }

Primitives ==
    [tempo : {90, 150}, rms_mean : {50, 200}, chroma_vals : {OneHot(0), OneHot(1)},
     centroid_variance : {0, 250000, 3000000}, mfccs : MfccMatrices,
     loadFails : BOOLEAN]

ScoreCalls ==
    [fn : {"calculate_valence", "determine_mood"}, chroma_vals : ChromaVectors,
     tempo : Tempos, energy : Energies]
    \cup [fn : {"calculate_intensity"}, tempo : Tempos, energy : Energies]
    \cup [fn : {"calculate_complexity"}, spectral_variance : SpectralVariances,
          mfcc_variance : MfccVarianceArrays]

\* python audio_analyzer.py <args>: argc is len(sys.argv)
MainCalls ==
    [fn : {"main"}, argc : {1, 3}]
    \cup [fn : {"main"}, argc : {2}, p : Primitives]

InitAnalyzer ==
    /\ call \in ScoreCalls \cup MainCalls
    /\ returned = NoResult
    /\ event = [path |-> None, queryStringParameters |-> [isNull |-> TRUE, url |-> None]]
    /\ context = None
    /\ world = [unlinkFails |-> FALSE]
    /\ pc = "idle"
    /\ handler = "none"
    /\ pending = "none"
    /\ started = <<>>
    /\ audio_file = None
    /\ tmp_files = {}
    /\ response = NoResponse
    /\ propagated = FALSE

Value(v) == [tag |-> "value", value |-> v]

Tempo(c) == Rat(c.tempo, 1)

Energy(c) == Rat(c.energy, 1000)

Rats(xs) == [i \in 1..Len(xs) |-> Rat(xs[i], 1)]

CallValence ==
    /\ call.fn = "calculate_valence"
    /\ returned = NoResult
    /\ returned' = Value(calculate_valence(call.chroma_vals, Tempo(call), Energy(call)))
    /\ UNCHANGED <<call, handlerVars>>

CallIntensity ==
    /\ call.fn = "calculate_intensity"
    /\ returned = NoResult
    /\ returned' = Value(calculate_intensity(Energy(call), Tempo(call)))
    /\ UNCHANGED <<call, handlerVars>>

CallComplexity ==
    /\ call.fn = "calculate_complexity"
    /\ returned = NoResult
    /\ returned' = Value(calculate_complexity(Rat(call.spectral_variance, 1),
                                              Rats(call.mfcc_variance)))
    /\ UNCHANGED <<call, handlerVars>>

CallMood ==
    /\ call.fn = "determine_mood"
    /\ returned = NoResult
    /\ returned' = Value(determine_mood(Tempo(call), Energy(call), call.chroma_vals))
    /\ UNCHANGED <<call, handlerVars>>

\* what librosa hands to the aggregator, as floats
Floats(p) ==
    [tempo             |-> Rat(p.tempo, 1),
     rms_mean          |-> Rat(p.rms_mean, 1000),
     chroma_vals       |-> p.chroma_vals,
     centroid_variance |-> Rat(p.centroid_variance, 1),
     mfccs             |-> p.mfccs,
     loadFails         |-> p.loadFails]

\* the __main__ block: a usage error unless there is exactly one argument
Main ==
    /\ call.fn = "main"
    /\ returned = NoResult
    /\ returned' =
         IF call.argc # 2
         THEN [tag |-> "exit", code |-> 1,
               stdout |-> [success |-> FALSE,
                           error |-> "Usage: python audio_analyzer.py <audio_file_path>"]]
         ELSE [tag |-> "exit", code |-> 0, stdout |-> analyze_audio(Floats(call.p))]
    /\ UNCHANGED <<call, handlerVars>>

NextAnalyzer ==
    \/ CallValence
    \/ CallIntensity
    \/ CallComplexity
    \/ CallMood
    \/ Main

SpecAnalyzer == InitAnalyzer /\ [][NextAnalyzer]_vars

-----------------------------------------------------------------------------
(* Properties of the Lambda handler, checked under Spec *)

Occurrences(seq, x) == Cardinality({ i \in DOMAIN seq : seq[i] = x })

Status == response.statusCode

IsInfoRequest == event.path # None /\ RoutesToInfo(event.path)

IsAudioRequest == event.path # None /\ RoutesToAudio(event.path)

\* the metadata process exits successfully and prints a JSON object whose
\* duration is a number (0 when the key is absent)
MetadataWellFormed ==
    /\ world.meta.kind = "exit"
    /\ world.meta.returncode = 0
    /\ world.meta.stdout.form = "object"
    /\ Get(world.meta.stdout.value, "duration", JNum(0))[1] = "num"

ReportedDuration == Get(world.meta.stdout.value, "duration", JNum(0))[2]

\* the enumerated URLs of a recognized shape, by the wording of the
\* interface: host www.youtube.com, youtube.com or m.youtube.com with path
\* /watch and a non-empty v, or host youtu.be with a non-empty path segment
RecognizedUrls == { UrlWatch, UrlShort, UrlMobile, UrlUpper, UrlPort }

UrlRecognized == QueryUrl(event) \in RecognizedUrls

\* C1: in a download+analyze request whose metadata fetch reports a duration
\* over 300 seconds the download process is never started, and the request
\* is answered 400 with details {duration: <reported>, maxDuration: 300}.
C1_DurationGate ==
    (IsAudioRequest /\ started # <<>> /\ MetadataWellFormed /\ ReportedDuration > 300)
    => /\ Occurrences(started, "download") = 0
       /\ pc = "done" =>
            /\ Status = 400
            /\ "details" \in DOMAIN response.body
            /\ response.body.details =
                   [duration |-> ReportedDuration, maxDuration |-> 300]

C1_Witness ==
    /\ pc = "done"
    /\ handler = "audio"
    /\ started = <<"metadata">>
    /\ MetadataWellFormed
    /\ ReportedDuration = 301
    /\ Status = 400

\* C2: a download+analyze request with a recognized URL, a metadata fetch
\* reporting a duration of at most 300, a successful download and a
\* successful analysis attempts the download and ends with status 200 and
\* body {success: true, videoInfo: {title, duration, author, thumbnail},
\* analysis}.
C2_AcceptedRequest ==
    ( /\ pc = "done"
      /\ IsAudioRequest
      /\ UrlRecognized
      /\ MetadataWellFormed
      /\ ReportedDuration <= 300
      /\ world.download.kind = "exit"
      /\ world.download.returncode = 0
      /\ world.analysis.success )
    => /\ Occurrences(started, "download") = 1
       /\ Status = 200
       /\ DOMAIN response.body = {"success", "videoInfo", "analysis"}

\* C4: on both endpoints a request whose url is missing or not of a
\* recognized shape (among them https://youtu.be/ and
\* https://example.com/watch?v=abc) starts no external process and is
\* answered 400; https://www.youtube.com/watch?v=abc123 and
\* https://youtu.be/abc123 are valid: such a request goes on to the metadata
\* process.
C4_InvalidUrlRejected ==
    (IsInfoRequest \/ IsAudioRequest)
    => /\ ~UrlRecognized =>
            /\ started = <<>>
            /\ pc # "running"
            /\ pc = "done" => Status = 400
       /\ (QueryUrl(event) \in {UrlWatch, UrlShort} /\ pc # "start") =>
            started # <<>>

C4_Witness ==
    /\ pc = "done"
    /\ handler = "audio"
    /\ QueryUrl(event) = UrlShortEmptyPath
    /\ Status = 400
    /\ started = <<>>

ResolverFails ==
    \/ world.meta.kind = "oserror"
    \/ world.meta.kind = "exit" /\ world.meta.returncode # 0

InfoBodyKeys == {"title", "duration", "thumbnail", "author", "url"}

\* C5 as stated: the info endpoint answers 400 only for a missing or
\* unrecognized url; for a recognized URL it answers 200 with {title,
\* duration, thumbnail, author, url} whenever the resolver exits successfully
\* with a well-formed payload, 500 when the resolver fails and 504 when it
\* times out.
C5_InfoOutcomes ==
    (pc = "done" /\ IsInfoRequest)
    => /\ Status = 400 => ~UrlRecognized
       /\ UrlRecognized =>
            /\ MetadataWellFormed =>
                 Status = 200 /\ DOMAIN response.body = InfoBodyKeys
            /\ ResolverFails => Status = 500
            /\ world.meta.kind = "timeout" => Status = 504

\* C5 amended: the info endpoint also answers 400, with details {duration,
\* maxDuration: 300}, when the payload reports a duration over 300; the 200
\* is for a well-formed payload whose duration is at most 300.
C5_InfoOutcomesAmended ==
    (pc = "done" /\ IsInfoRequest)
    => /\ Status = 400 =>
            \/ ~UrlRecognized
            \/ /\ MetadataWellFormed
               /\ ReportedDuration > 300
               /\ "details" \in DOMAIN response.body
               /\ response.body.details =
                      [duration |-> ReportedDuration, maxDuration |-> 300]
       /\ UrlRecognized =>
            /\ (MetadataWellFormed /\ ReportedDuration <= 300) =>
                 Status = 200 /\ DOMAIN response.body = InfoBodyKeys
            /\ (MetadataWellFormed /\ ReportedDuration > 300) => Status = 400
            /\ ResolverFails => Status = 500
            /\ world.meta.kind = "timeout" => Status = 504

C5_Witness ==
    /\ pc = "done"
    /\ handler = "info"
    /\ UrlRecognized
    /\ started = <<"metadata">>
    /\ MetadataWellFormed
    /\ ReportedDuration = 301
    /\ Status = 400
    /\ response.body.details = [duration |-> 301, maxDuration |-> 300]

TimedOut(proc) ==
    /\ Occurrences(started, proc) > 0
    /\ pending # proc
    /\ IF proc = "metadata" THEN world.meta.kind = "timeout"
                            ELSE world.download.kind = "timeout"

\* C6: within a request each external process is started at most once; a
\* process that outlives its timeout is the last one started and the
\* response is 504; no response is 504 unless a process timed out.
C6_Timeouts ==
    /\ Occurrences(started, "metadata") <= 1
    /\ Occurrences(started, "download") <= 1
    /\ \A proc \in {"metadata", "download"} :
          TimedOut(proc) =>
             /\ started[Len(started)] = proc
             /\ pc = "done"
             /\ Status = 504
    /\ (pc = "done" /\ Status = 504) =>
          TimedOut("metadata") \/ TimedOut("download")

C6_Witness ==
    /\ pc = "done"
    /\ handler = "audio"
    /\ TimedOut("metadata")
    /\ started = <<"metadata">>
    /\ Status = 504

\* C7: every invocation returns an envelope and lets no exception through:
\* before the return some step of the handler can be taken; the status is one of 200,
\* 400, 404, 500, 504; the headers are Content-Type application/json and
\* Access-Control-Allow-Origin *; a body of a status other than 200 has the
\* keys {error} or {error, details}.
C7_Envelope ==
    /\ ~propagated
    /\ pc # "done" =>
          InfoRouted \/ AudioRouted \/ OtherRouted \/ Blocked("info") \/ Blocked("audio")
    /\ pc = "done" =>
          /\ DOMAIN response = {"statusCode", "headers", "body"}
          /\ Status \in {200, 400, 404, 500, 504}
          /\ DOMAIN response.headers = {"Content-Type", "Access-Control-Allow-Origin"}
          /\ response.headers["Content-Type"] = "application/json"
          /\ response.headers["Access-Control-Allow-Origin"] = "*"
          /\ Status # 200 =>
                DOMAIN response.body \in {{"error"}, {"error", "details"}}

C7_Witness ==
    /\ pc = "done"
    /\ event.path = None
    /\ Status = 500
    /\ DOMAIN response.body = {"error"}

-----------------------------------------------------------------------------
(* Properties of the feature aggregator, checked under SpecAnalyzer *)

MoodLabels ==
    { "energetic", "intense", "upbeat", "dramatic", "calm", "melancholic",
      "moderate", "contemplative" }

\* C8: determine_mood yields one of the 8 labels, by the first rule that
\* matches: tempo > 140 and energy > 0.15, then tempo > 100 and energy > 0.1,
\* then tempo < 80, then the rest; the label of a major key or of a minor
\* key.  Tempo 150, energy 0.2, key C is energetic.
C8_MoodRules ==
    (call.fn = "determine_mood" /\ returned.tag = "value")
    => LET t     == call.tempo
           e     == call.energy
           major == ArgMax(call.chroma_vals) \in {0, 2, 4, 5, 7, 9, 11}
           rule1 == t > 140 /\ e > 150
           rule2 == t > 100 /\ e > 100
           rule3 == t < 80
           Of(majorLabel, minorLabel) ==
               returned.value = IF major THEN majorLabel ELSE minorLabel
       IN  /\ returned.value \in MoodLabels
           /\ rule1 => Of("energetic", "intense")
           /\ (~rule1 /\ rule2) => Of("upbeat", "dramatic")
           /\ (~rule1 /\ ~rule2 /\ rule3) => Of("calm", "melancholic")
           /\ (~rule1 /\ ~rule2 /\ ~rule3) => Of("moderate", "contemplative")
           /\ (t = 150 /\ e = 200 /\ call.chroma_vals = OneHot(0))
                 => returned.value = "energetic"

C8_Witness ==
    /\ call.fn = "determine_mood"
    /\ call.tempo = 150
    /\ call.energy = 200
    /\ call.chroma_vals = OneHot(0)
    /\ returned = Value("energetic")

InUnitRange(x) == 0 <= x.num /\ x.num <= x.den

\* C9: valence, intensity and complexity lie in [0, 1] for every input,
\* zero and negative tempo, energy and variances included, called directly
\* or through analyze_audio.
C9_ScoreRange ==
    /\ ( /\ call.fn \in {"calculate_valence", "calculate_intensity",
                         "calculate_complexity"}
         /\ returned.tag = "value" )
       => InUnitRange(returned.value)
    /\ (call.fn = "main" /\ returned.tag = "exit" /\ returned.stdout.success)
       => /\ InUnitRange(returned.stdout.features.valence)
          /\ InUnitRange(returned.stdout.features.intensity)
          /\ InUnitRange(returned.stdout.features.complexity)

C9_Witness ==
    /\ call.fn = "calculate_intensity"
    /\ call.tempo < 0
    /\ call.energy < 0
    /\ returned = Value(Zero)

\* the complexity of the interface: M is the mean of the per-row variances
ExpectedComplexity(spectral_variance, mfccs) ==
    LET M == RMean(VarianceRows(mfccs))
    IN  RClip(RAdd(RMul(Rat(1, 2), RMin(RMul(spectral_variance, Rat(1, 1000000)), One)),
                   RMul(Rat(1, 2), RMin(RMul(M, Rat(1, 100)), One))),
              Zero, One)

\* C10: the complexity analyze_audio reports is
\* clamp(0.5 * min(varianceOfCentroid / 1000000, 1) + 0.5 * min(M / 100, 1), 0, 1)
\* with M the mean of the 13 per-row variances of the MFCC matrix.
C10_ComplexityFormula ==
    (call.fn = "main" /\ returned.tag = "exit" /\ returned.stdout.success)
    => returned.stdout.features.complexity =
          ExpectedComplexity(Rat(call.p.centroid_variance, 1), call.p.mfccs)

====
